---------------------------- MODULE Spec2Model ----------------------------
(***************************************************************************)
(* A model of the CRED-1 domain credibility pipeline (aloth/cred-1):       *)
(*   pipeline/build_dataset.py   normalize_domain, parse_opensources,      *)
(*                               parse_iffy, merge_entries                 *)
(*   pipeline/enrich_dataset.py  main, step_tranco, step_rdap,             *)
(*                               step_factcheck, step_safebrowsing,        *)
(*                               step_score                                *)
(*   examples/usage.py           check_domain, CATEGORIES                  *)
(*                                                                         *)
(* A Python str is a sequence of one-character strings.  A Python dict is  *)
(* a function whose DOMAIN is the set of keys present.  Python's None is   *)
(* the empty sequence and a value v that may be None is <<v>>.             *)
(* Floats are exact fixed-point integers; the unit is stated at each use.  *)
(***************************************************************************)
EXTENDS Integers, Sequences, FiniteSets, TLC

VARIABLES
    \* ---- normalize_domain applied by the builder and again to its result
    nd_raw,      \* the raw domain string
    nd_once,     \* Some(normalize_domain(nd_raw)) once computed
    nd_twice,    \* Some(normalize_domain(nd_once)) once computed
    cd_key,      \* Some(the key check_domain looks up for nd_raw) once computed
    \* ---- step_score
    sc_entries,  \* the record list handed to step_score
    sc_i,        \* index of the next record of the for loop (1-based)
    sc_math,     \* whether the local name math is bound (line 494 executed)
    sc_pc,       \* "loop" | "raised" | "done"
    \* ---- step_merge
    os_raw,      \* 01_opensources_raw.json: a sequence of <<domain, info>>
    iffy_raw,    \* 02_iffy_raw.csv: a sequence of rows
    opensources, \* parse_opensources' result, {domain: entry}
    iffy,        \* parse_iffy's result, {domain: entry}
    merged,      \* merge_entries' result, a list of entries
    tier1,       \* the compact output, {domain: {s, c, n}}
    mg_pc,       \* "parse_os" | "parse_iffy" | "merge" | "done"
    \* ---- enrich_dataset.py: the files, the environment
    files,         \* the cache file of each provider
    enriched_file, \* 04_enriched.json
    api_key,       \* whether a Google API key can be found
    op_step,       \* the --step the operator passes to the runs
    \* ---- enrich_dataset.py: the running process (lost when it dies)
    m_limit,       \* --limit
    stage,         \* the driver main is in, "idle" when no process runs
    pc,            \* the position inside the driver
    entries,       \* the record list
    cache,         \* the driver's cache dict
    to_query,      \* the driver's to_query / to_check list
    loop_i,        \* the loop index (i of enumerate, batch_start)
    \* ---- history of the driver the process is in, for the properties
    loaded,        \* the cache as the driver loaded it
    committed,     \* per provider, the file's content after the last completed write
    unflushed,     \* results stored in cache since the file was last written
    q_calls,       \* key -> number of provider calls made for it in this run
    q_warm,        \* keys the provider was called for while they were in cache
    q_failed,      \* keys whose provider call failed in this run
    exit_status    \* how the last process ended: "none" | "ok" | "error" (an
                   \* exception) | "no_key" (sys.exit(1)) | "killed"

normVars  == <<nd_raw, nd_once, nd_twice, cd_key>>
scoreVars == <<sc_entries, sc_i, sc_math, sc_pc>>
mergeVars == <<os_raw, iffy_raw, opensources, iffy, merged, tier1, mg_pc>>
diskVars  == <<files, enriched_file, api_key, op_step>>
procVars  == <<m_limit, stage, pc, entries, cache, to_query, loop_i>>
histVars  == <<loaded, committed, unflushed, q_calls, q_warm, q_failed, exit_status>>
enrichVars == <<diskVars, procVars, histVars>>
vars == <<normVars, scoreVars, mergeVars, enrichVars>>

notNorm   == <<scoreVars, mergeVars, enrichVars>>
notScore  == <<normVars, mergeVars, enrichVars>>
notMerge  == <<normVars, scoreVars, enrichVars>>
notEnrich == <<normVars, scoreVars, mergeVars>>

None == <<>>
Some(v) == <<v>>
IsNone(o) == Len(o) = 0
Val(o) == o[1]

EmptyDict == [k \in {} |-> k]

Min2(a, b) == IF a <= b THEN a ELSE b
Max2(a, b) == IF a >= b THEN a ELSE b

(***************************************************************************)
(* build_dataset.py: normalize_domain                                      *)
(***************************************************************************)

\* str.lower() on the characters the inputs are drawn from
LowerChar(c) == IF c = "W" THEN "w" ELSE IF c = "A" THEN "a" ELSE c

Lower(s) == [i \in 1..Len(s) |-> LowerChar(s[i])]

Whitespace == {" "}

\* str.rstrip(chars): drop every trailing character that is in chars
RECURSIVE RStrip(_, _)
RStrip(s, chars) ==
    IF Len(s) > 0 /\ s[Len(s)] \in chars
    THEN RStrip(SubSeq(s, 1, Len(s) - 1), chars)
    ELSE s

\* str.lstrip(chars)
RECURSIVE LStrip(_, _)
LStrip(s, chars) ==
    IF Len(s) > 0 /\ s[1] \in chars
    THEN LStrip(SubSeq(s, 2, Len(s)), chars)
    ELSE s

\* str.strip(): whitespace off both ends
Strip(s) == RStrip(LStrip(s, Whitespace), Whitespace)

StartsWith(s, p) == Len(s) >= Len(p) /\ SubSeq(s, 1, Len(p)) = p

WwwDot == <<"w", "w", "w", ".">>

\* d = domain.lower().strip().rstrip("/").rstrip("."); one "www." cut
normalize_domain(domain) ==
    LET d == RStrip(RStrip(Strip(Lower(domain)), {"/"}), {"."})
    IN  IF StartsWith(d, WwwDot) THEN SubSeq(d, 5, Len(d)) ELSE d

\* The raw strings: concatenations of at most MaxTokens of these pieces.
Tokens == { WwwDot, <<"W", "W", "W", ".">>, <<"a">>, <<".">>, <<"/">>, <<" ">> }

MaxTokens == 3

RECURSIVE RawStrings(_)
RawStrings(n) ==
    IF n = 0 THEN { <<>> }
    ELSE LET shorter == RawStrings(n - 1)
         IN  shorter \cup { s \o t : s \in shorter, t \in Tokens }

StartNorm ==
    /\ nd_raw \in RawStrings(MaxTokens)
    /\ nd_once = None
    /\ nd_twice = None
    /\ cd_key = None

\* the builder computes the key of a raw domain (parse_opensources line 143,
\* parse_iffy line 182)
NormalizeRaw ==
    /\ IsNone(nd_once)
    /\ nd_once' = Some(normalize_domain(nd_raw))
    /\ UNCHANGED <<nd_raw, nd_twice, cd_key>>
    /\ UNCHANGED notNorm

\* a stored key is normalized again (a key fed back as a domain)
NormalizeKey ==
    /\ ~IsNone(nd_once)
    /\ IsNone(nd_twice)
    /\ nd_twice' = Some(normalize_domain(Val(nd_once)))
    /\ UNCHANGED <<nd_raw, nd_once, cd_key>>
    /\ UNCHANGED notNorm

\* usage.py lines 18-21: domain.lower().strip().rstrip("/"); one "www." cut
check_domain_key(domain) ==
    LET d == RStrip(Strip(Lower(domain)), {"/"})
    IN  IF StartsWith(d, WwwDot) THEN SubSeq(d, 5, Len(d)) ELSE d

\* the consumer looks the same raw string up (usage.py check_domain)
CheckDomain ==
    /\ IsNone(cd_key)
    /\ cd_key' = Some(check_domain_key(nd_raw))
    /\ UNCHANGED <<nd_raw, nd_once, nd_twice>>
    /\ UNCHANGED notNorm


(***************************************************************************)
(* enrich_dataset.py: step_score                                           *)
(*                                                                         *)
(* Units.  A signal or a category score x is the integer x * SignalUnit.   *)
(* A weight w is the integer 100 * w.  weighted_sum and score are          *)
(* therefore in units of 1 / (100 * SignalUnit).  iffy_score is kept in    *)
(* hundredths, domain_age_years in tenths (it is round(..., 1)),           *)
(* credibility_score in thousandths (it is round(..., 3)).                 *)
(***************************************************************************)

\* common denominator of the divisors 6.0, 20.0 (of tenths) and 1.7
SignalUnit == 600 * 17

Categories ==
    {"fake", "conspiracy", "unreliable", "mixed", "satire", "other",
     "mostly_reliable", "reliable"}

\* CATEGORY_SCORES, in tenths
CATEGORY_SCORES ==
    [c \in Categories |->
        CASE c = "reliable"        -> 10
          [] c = "mostly_reliable" -> 8
          [] c = "mixed"           -> 5
          [] c = "satire"          -> 3
          [] c = "other"           -> 5
          [] c = "unreliable"      -> 2
          [] c = "conspiracy"      -> 1
          [] c = "fake"            -> 0]

\* CATEGORY_SCORES.get(category, 0.5)
CatScore(category) ==
    IF category \in Categories
    THEN CATEGORY_SCORES[category] * (SignalUnit \div 10)
    ELSE 5 * (SignalUnit \div 10)

\* math.log10, exact on the powers of ten the ranks and the claim counts
\* are drawn from
RECURSIVE Log10(_)
Log10(n) == IF n < 10 THEN 0 ELSE 1 + Log10(n \div 10)

\* max(0.0, 1.0 - (math.log10(max(tranco, 1)) / 6.0))
TrancoSignal(rank) ==
    Max2(0, SignalUnit - (Log10(Max2(rank, 1)) * SignalUnit) \div 6)

\* min(1.0, age / 20.0), age in tenths of a year
AgeSignal(ageTenths) == Min2(SignalUnit, (ageTenths * SignalUnit) \div 200)

\* max(0.0, 1.0 - (math.log10(max(fc_claims, 1)) / 1.7))
FcSignal(claims) ==
    Max2(0, SignalUnit - (Log10(Max2(claims, 1)) * SignalUnit * 10) \div 17)

\* iffy_score (hundredths) as a signal
IffySignal(hundredths) == hundredths * (SignalUnit \div 100)

W_CATEGORY == 50
W_IFFY == 15
W_TRANCO == 5
W_AGE == 5
W_FACTCHECK == 15
W_FULL == 100
\* the hard cap 0.05, in hundredths
SB_CAP == 5

\* round(x / unit) to the nearest integer, ties to even (Python's round on
\* the exact value; where a float sum falls beside an exact tie Python
\* rounds the float, and the values drawn below produce no such tie)
RoundDiv(x, unit) ==
    LET q == x \div unit
        r == x % unit
    IN  IF 2 * r < unit THEN q
        ELSE IF 2 * r > unit THEN q + 1
        ELSE IF q % 2 = 0 THEN q ELSE q + 1

\* entry.get(k): None when the key is absent; iffy_score is stored as an
\* optional value by parse_iffy, the other attributes as plain values
GetOpt(e, k) == IF k \in DOMAIN e THEN e[k] ELSE None
GetVal(e, k) == IF k \in DOMAIN e THEN Some(e[k]) ELSE None

\* lines 504-506: fc_claims = entry.get("factcheck_claims", 0); > 0
FcClaims(e) == IF "factcheck_claims" \in DOMAIN e THEN e["factcheck_claims"] ELSE 0

\* lines 511: entry.get("safe_browsing_flagged", False)
SbFlagged(e) ==
    IF "safe_browsing_flagged" \in DOMAIN e THEN e["safe_browsing_flagged"] ELSE FALSE

\* lines 517-519, 521-523, 525-527, 529-531: one optional signal added to
\* the pair <<weighted_sum, weights_total>>
AddSignal(acc, weight, signal) ==
    IF IsNone(signal) THEN acc
    ELSE <<acc[1] + weight * Val(signal), acc[2] + weight>>

\* FillRemaining without the redistribution of lines 534-535
FillRemaining_Dropped(acc, cat_score) == acc[1]

\* lines 533-535: fill the remaining weight with the category score
FillRemaining(acc, cat_score) ==
    IF acc[2] < W_FULL THEN acc[1] + (W_FULL - acc[2]) * cat_score ELSE acc[1]

\* SafeBrowsingCap blending the penalty in instead of capping
SafeBrowsingCap_Blend(score, sb_flagged) ==
    IF sb_flagged THEN (score + SB_CAP * SignalUnit) \div 2 ELSE score

\* lines 539-541: the Safe Browsing hard cap
SafeBrowsingCap(score, sb_flagged) ==
    IF sb_flagged THEN Min2(score, SB_CAP * SignalUnit) ELSE score

\* lines 483-541: the score of one record before rounding
WeightedScore(e) ==
    LET cat_score == CatScore(e["category"])
        iffy_score      == GetOpt(e, "iffy_score")
        tranco    == GetVal(e, "tranco_rank")
        age       == GetVal(e, "domain_age_years")
        iffy_sig   == IF IsNone(iffy_score) THEN None ELSE Some(IffySignal(Val(iffy_score)))
        tranco_sig == IF IsNone(tranco) THEN None ELSE Some(TrancoSignal(Val(tranco)))
        age_sig    == IF IsNone(age) THEN None ELSE Some(AgeSignal(Val(age)))
        fc_sig     == IF FcClaims(e) > 0 THEN Some(FcSignal(FcClaims(e))) ELSE None
        acc0 == <<W_CATEGORY * cat_score, W_CATEGORY>>
        acc1 == AddSignal(acc0, W_IFFY, iffy_sig)
        acc2 == AddSignal(acc1, W_TRANCO, tranco_sig)
        acc3 == AddSignal(acc2, W_AGE, age_sig)
        acc4 == AddSignal(acc3, W_FACTCHECK, fc_sig)
    IN  SafeBrowsingCap(FillRemaining(acc4, cat_score), SbFlagged(e))

\* line 543: round(score, 3), in thousandths
CredibilityScore(e) == RoundDiv(WeightedScore(e), SignalUnit \div 10)

\* lines 492-494 bind the local name math; line 508 reads it
BindsMath(e) == "tranco_rank" \in DOMAIN e
ReadsMath(e) == FcClaims(e) > 0

\* lines 481-551: one iteration of the for loop.  The import on line 494
\* makes math a local of step_score; reading it unbound raises
\* UnboundLocalError, which leaves the loop and the function.
ScoreEntry ==
    /\ sc_pc = "loop"
    /\ sc_i <= Len(sc_entries)
    /\ LET e == sc_entries[sc_i]
           bound == sc_math \/ BindsMath(e)
       IN  IF ReadsMath(e) /\ ~bound
           THEN /\ sc_pc' = "raised"
                /\ UNCHANGED <<sc_entries, sc_i, sc_math>>
           ELSE /\ sc_entries' =
                     [sc_entries EXCEPT
                        ![sc_i] = [k \in DOMAIN e \ {"credibility_score"} |-> e[k]]
                                  @@ ("credibility_score" :> CredibilityScore(e))]
                /\ sc_i' = sc_i + 1
                /\ sc_math' = bound
                /\ sc_pc' = "loop"
    /\ UNCHANGED notScore

\* lines 553-603: the loop is over; min(scores) of line 555 needs a record
ScoreFinish ==
    /\ sc_pc = "loop"
    /\ sc_i > Len(sc_entries)
    /\ sc_pc' = IF Len(sc_entries) = 0 THEN "raised" ELSE "done"
    /\ UNCHANGED <<sc_entries, sc_i, sc_math>>
    /\ UNCHANGED notScore

\* step_rdap lines 258-260: round((now - reg_date).days / 365.25, 1), in
\* tenths of a year; days is negative for a registration date after now
AgeTenths(days) == RoundDiv(days * 40, 1461)

\* (now - reg_date).days of the registration dates a registry may report
RegDays == {-731, 0, 3653, 10958}

\* The attribute values a record may carry when step_score reads it.
IffyScores == {0, 40, 100, 250}
TrancoRanks == {1, 1000, 1000000}
AgeValues == {AgeTenths(d) : d \in RegDays}
ClaimCounts == {1, 10, 100}

OptionOf(S) == {None} \cup {Some(v) : v \in S}
Attr(k, o) == IF IsNone(o) THEN EmptyDict ELSE (k :> Val(o))

\* a record as merge_entries and the enrichment drivers leave it
ScoredInput(d, cat, iffyOpt, tranco, age, fc, sb) ==
    [domain |-> d, category |-> cat,
     sources |-> IF IsNone(iffyOpt) THEN <<"opensources">> ELSE <<"iffy">>]
    @@ Attr("iffy_score", iffyOpt) @@ Attr("tranco_rank", tranco)
    @@ Attr("domain_age_years", age) @@ Attr("factcheck_claims", fc)
    @@ Attr("safe_browsing_flagged", sb)

ScoreInputs ==
    { ScoredInput(<<"a">>, cat, iffyOpt, tranco, age, fc, sb) :
        cat \in Categories,
        iffyOpt \in OptionOf(OptionOf(IffyScores)),
        tranco \in OptionOf(TrancoRanks),
        age \in OptionOf(AgeValues),
        fc \in OptionOf(ClaimCounts),
        sb \in OptionOf({TRUE}) }

\* the records that may precede it in the list
ScorePrefixes ==
    { <<>>,
      << ScoredInput(<<"b">>, "mixed", None, Some(1000), None, None, None) >>,
      << ScoredInput(<<"b">>, "reliable", None, None, None, None, None) >> }

IdleNorm == nd_raw = <<>> /\ nd_once = None /\ nd_twice = None /\ cd_key = None
IdleScore == sc_entries = <<>> /\ sc_i = 1 /\ sc_math = FALSE /\ sc_pc = "idle"

StartScore ==
    /\ sc_entries \in { p \o <<e>> : p \in ScorePrefixes, e \in ScoreInputs }
    /\ sc_i = 1
    /\ sc_math = FALSE
    /\ sc_pc = "loop"

(***************************************************************************)
(* build_dataset.py: parse_opensources, parse_iffy, merge_entries,         *)
(* step_merge.  Source labels, CSV cells and source names are atomic       *)
(* strings; domains are character sequences.                               *)
(***************************************************************************)

\* dict[k] = v
Put(dict, k, v) == [x \in DOMAIN dict \cup {k} |-> IF x = k THEN v ELSE dict[x]]

\* dict.get(k, default)
Get(dict, k, default) == IF k \in DOMAIN dict THEN dict[k] ELSE default

\* lines 46-69
OPENSOURCES_CATEGORY_MAP ==
       ("fake" :> "fake") @@ ("fake news" :> "fake") @@ ("Fake" :> "fake")
    @@ ("fake " :> "fake") @@ ("bias" :> "mixed")
    @@ ("conspiracy" :> "conspiracy") @@ ("Conspiracy" :> "conspiracy")
    @@ ("satire" :> "satire") @@ ("satirical" :> "satire")
    @@ ("unreliable" :> "unreliable") @@ ("unrealiable" :> "unreliable")
    @@ (" unreliable" :> "unreliable") @@ ("clickbait" :> "unreliable")
    @@ ("political" :> "mixed") @@ ("Political" :> "mixed")
    @@ ("junksci" :> "unreliable") @@ ("hate" :> "unreliable")
    @@ ("rumor" :> "unreliable") @@ ("rumor " :> "unreliable")
    @@ ("reliable" :> "reliable") @@ ("state" :> "mixed") @@ ("blog" :> "other")

\* lines 72-79
IFFY_FACTUAL_MAP ==
       ("VL" :> "fake") @@ ("L" :> "unreliable") @@ ("M" :> "mixed")
    @@ ("MH" :> "mostly_reliable") @@ ("H" :> "reliable") @@ ("VH" :> "reliable")

\* str.strip() on the labels and cells the inputs are drawn from
StripCell(t) ==
    CASE t = "fake " -> "fake"
      [] t = " unreliable" -> "unreliable"
      [] t = " " -> ""
      [] OTHER -> t

\* lines 156 and 241
category_priority ==
    <<"fake", "conspiracy", "unreliable", "mixed", "satire", "other",
      "mostly_reliable", "reliable">>

SetMin(S) == CHOOSE x \in S : \A y \in S : x <= y

\* lines 157-161 and 243-247: primary = "other"; the first category of
\* category_priority that is in cats wins
PrimaryOf(cats) ==
    LET hits == { i \in 1..Len(category_priority) : category_priority[i] \in cats }
    IN  IF hits = {} THEN "other" ELSE category_priority[SetMin(hits)]

TypeKeys == <<"type", "2nd type", "3rd type">>

\* lines 148-153: the mapped, non-empty type fields, as a set
MappedTypes(info) ==
    { Get(OPENSOURCES_CATEGORY_MAP, StripCell(Get(info, TypeKeys[i], "")), "other") :
        i \in { j \in 1..3 : StripCell(Get(info, TypeKeys[j], "")) # "" } }

\* lines 147-169: the entry of one OpenSources item
OsEntry(d, info) ==
    [domain |-> d,
     category |-> PrimaryOf(MappedTypes(info)),
     categories_all |-> MappedTypes(info),
     sources |-> <<"opensources">>,
     opensources_types |->
        <<Get(info, "type", ""), Get(info, "2nd type", ""), Get(info, "3rd type", "")>>]

\* lines 141-171: raw.items() in file order; a later item of the same
\* normalized domain replaces the earlier one
RECURSIVE ParseOsItems(_, _)
ParseOsItems(raw, out) ==
    IF Len(raw) = 0 THEN out
    ELSE LET d == normalize_domain(Head(raw)[1])
         IN  IF Len(d) = 0
             THEN ParseOsItems(Tail(raw), out)
             ELSE ParseOsItems(Tail(raw), Put(out, d, OsEntry(d, Head(raw)[2])))

parse_opensources(raw) == ParseOsItems(raw, EmptyDict)

\* float(s) of the Score cells drawn, in hundredths; other text raises
\* ValueError
FloatCells == ("0.4" :> 40) @@ ("1.0" :> 100) @@ ("2.5" :> 250)

\* lines 197-200: float(score_str) if score_str else None, None on ValueError
ParseFloat(cell) ==
    IF cell = "" THEN None
    ELSE IF cell \in DOMAIN FloatCells THEN Some(FloatCells[cell]) ELSE None

\* int(s) of the cells drawn
IntCells == ("1996" :> 1996) @@ ("1200" :> 1200)

\* lines 202-210
ParseInt(cell) ==
    IF cell = "" THEN None
    ELSE IF cell \in DOMAIN IntCells THEN Some(IntCells[cell]) ELSE None

\* lines 186-225: the entry of one Iffy.news row
IffyEntry(d, row) ==
    LET factual  == StripCell(Get(row, "MBFC Fact", ""))
        category == Get(IFFY_FACTUAL_MAP, factual, "unreliable")
    IN  [domain |-> d,
         category |-> category,
         categories_all |-> {category},
         sources |-> <<"iffy">>,
         iffy_factual |-> factual,
         iffy_bias |-> StripCell(Get(row, "MBFC Bias", "")),
         iffy_cred |-> StripCell(Get(row, "MBFC cred", "")),
         iffy_score |-> ParseFloat(StripCell(Get(row, "Score", ""))),
         iffy_site_rank |-> ParseInt(StripCell(Get(row, "Site Rank", ""))),
         iffy_year_online |-> ParseInt(StripCell(Get(row, "Year online", ""))),
         iffy_lang |-> StripCell(Get(row, "Lang", "")),
         iffy_name |-> StripCell(Get(row, "Name", ""))]

\* lines 180-227
RECURSIVE ParseIffyRows(_, _)
ParseIffyRows(rows, out) ==
    IF Len(rows) = 0 THEN out
    ELSE LET d == normalize_domain(Get(Head(rows), "Domain", <<>>))
         IN  IF Len(d) = 0
             THEN ParseIffyRows(Tail(rows), out)
             ELSE ParseIffyRows(Tail(rows), Put(out, d, IffyEntry(d, Head(rows))))

parse_iffy(rows) == ParseIffyRows(rows, EmptyDict)

\* ord(c) of the characters the domains are drawn from
Ord(c) ==
    CASE c = " " -> 32 [] c = "." -> 46 [] c = "/" -> 47
      [] c = "A" -> 65 [] c = "W" -> 87
      [] c = "a" -> 97 [] c = "b" -> 98 [] c = "c" -> 99 [] c = "w" -> 119

\* s < t on str
RECURSIVE StrLess(_, _)
StrLess(s, t) ==
    IF Len(t) = 0 THEN FALSE
    ELSE IF Len(s) = 0 THEN TRUE
    ELSE IF s[1] = t[1] THEN StrLess(Tail(s), Tail(t))
    ELSE Ord(s[1]) < Ord(t[1])

\* sorted(S) of a set of str
RECURSIVE Sorted(_)
Sorted(S) ==
    IF S = {} THEN <<>>
    ELSE LET least == CHOOSE x \in S : \A y \in S \ {x} : StrLess(x, y)
         IN  <<least>> \o Sorted(S \ {least})

IffyMetaKeys ==
    {"iffy_factual", "iffy_bias", "iffy_cred", "iffy_score",
     "iffy_site_rank", "iffy_year_online", "iffy_lang", "iffy_name"}

\* lines 239-263: both maps hold the domain
MergeBoth(d, os_entry, if_entry) ==
    [domain |-> d,
     category |-> PrimaryOf({os_entry["category"], if_entry["category"]}),
     categories_all |->
        Get(os_entry, "categories_all", {}) \cup Get(if_entry, "categories_all", {}),
     sources |-> <<"opensources", "iffy">>]
    @@ [k \in IffyMetaKeys \cap DOMAIN if_entry |-> if_entry[k]]
    @@ [k \in {"opensources_types"} \cap DOMAIN os_entry |-> os_entry[k]]

\* lines 236-268: the record of one domain
MergeOne(first, second, d) ==
    IF d \in DOMAIN first /\ d \in DOMAIN second
    THEN MergeBoth(d, first[d], second[d])
    ELSE IF d \in DOMAIN first THEN first[d] ELSE second[d]

\* the two maps' entries put one after the other, with no union of the keys
merge_entries_Appended(first, second) ==
    LET a == Sorted(DOMAIN first)
        b == Sorted(DOMAIN second)
    IN  [i \in 1..Len(a) |-> first[a[i]]] \o [i \in 1..Len(b) |-> second[b[i]]]

\* lines 230-270: merge_entries(opensources, iffy); first is the parameter
\* named opensources, second the parameter named iffy
merge_entries(first, second) ==
    LET order == Sorted(DOMAIN first \cup DOMAIN second)
    IN  [i \in 1..Len(order) |-> MergeOne(first, second, order[i])]

\* e["category"][0]
FirstLetter(category) ==
    CASE category = "fake" -> "f"
      [] category = "conspiracy" -> "c"
      [] category = "unreliable" -> "u"
      [] category = "mixed" -> "m"
      [] category = "satire" -> "s"
      [] category = "other" -> "o"
      [] category = "mostly_reliable" -> "m"
      [] category = "reliable" -> "r"

\* usage.py lines 25-33: the consumer's table from code to category
CATEGORIES ==
       ("f" :> "fake") @@ ("u" :> "unreliable") @@ ("m" :> "mixed")
    @@ ("c" :> "conspiracy") @@ ("s" :> "satire") @@ ("r" :> "reliable")
    @@ ("o" :> "other")

\* lines 343-349: the compact score, in hundredths: CREDIBILITY_SCORES (the
\* table of lines 330-339, equal to CATEGORY_SCORES) blended 60/40 with
\* iffy_score when there is one
CompactScore(e) ==
    LET score == (IF e["category"] \in Categories
                  THEN CATEGORY_SCORES[e["category"]] ELSE 5) * 10
        iffy_score == GetOpt(e, "iffy_score")
    IN  IF IsNone(iffy_score) THEN score
        ELSE RoundDiv(6 * score + 4 * Val(iffy_score), 10)

\* lines 341-354
RECURSIVE BuildTier1(_, _)
BuildTier1(list, out) ==
    IF Len(list) = 0 THEN out
    ELSE LET e == Head(list)
         IN  BuildTier1(Tail(list),
                        Put(out, e["domain"],
                            [s |-> CompactScore(e),
                             c |-> FirstLetter(e["category"]),
                             n |-> Len(e["sources"])]))

\* step_merge lines 285-287
StepParseOpensources ==
    /\ mg_pc = "parse_os"
    /\ opensources' = parse_opensources(os_raw)
    /\ mg_pc' = "parse_iffy"
    /\ UNCHANGED <<os_raw, iffy_raw, iffy, merged, tier1>>
    /\ UNCHANGED notMerge

\* step_merge lines 289-291
StepParseIffy ==
    /\ mg_pc = "parse_iffy"
    /\ iffy' = parse_iffy(iffy_raw)
    /\ mg_pc' = "merge"
    /\ UNCHANGED <<os_raw, iffy_raw, opensources, merged, tier1>>
    /\ UNCHANGED notMerge

\* step_merge lines 293-374: merge, save, build and save the compact output
StepMergeEntries ==
    /\ mg_pc = "merge"
    /\ merged' = merge_entries(opensources, iffy)
    /\ tier1' = BuildTier1(merge_entries(opensources, iffy), EmptyDict)
    /\ mg_pc' = "done"
    /\ UNCHANGED <<os_raw, iffy_raw, opensources, iffy>>
    /\ UNCHANGED notMerge

\* The raw files the model is run on.
Str_a    == <<"a">>
Str_WWWa == <<"W", "W", "W", ".", "a", "/">>
Str_b    == <<"b">>
Str_sp   == <<" ">>

OsInfo(t1, t2, t3) == ("type" :> t1) @@ ("2nd type" :> t2) @@ ("3rd type" :> t3)

OsFirstItems ==
    { <<d, OsInfo(t1, t2, t3)>> :
        d \in {Str_a, Str_WWWa, Str_sp},
        t1 \in {"", "fake ", "bias", "reliable", "xyz"},
        t2 \in {"", "satire"},
        t3 \in {"", "conspiracy"} }

OsSecondItems ==
    { <<d, OsInfo(t1, "", "")>> : d \in {Str_a, Str_b}, t1 \in {"", "reliable"} }

OsRawFiles ==
    { <<>> } \cup { <<x>> : x \in OsFirstItems }
             \cup { <<x, y>> : x \in OsFirstItems, y \in OsSecondItems }

IffyRow(d, fact, score) ==
       ("Domain" :> d) @@ ("MBFC Fact" :> fact) @@ ("Score" :> score)
    @@ ("MBFC Bias" :> "") @@ ("MBFC cred" :> "") @@ ("Site Rank" :> "1200")
    @@ ("Year online" :> "") @@ ("Lang" :> "") @@ ("Name" :> "")

IffyFirstRows ==
    { IffyRow(d, fact, score) :
        d \in {Str_a, Str_b},
        fact \in {"VL", "MH", "H", "", "XX"},
        score \in {"", "0.4", "abc", "2.5"} }

IffySecondRows == { IffyRow(Str_WWWa, "L", "1.0") }

IffyRawFiles ==
    { <<>> } \cup { <<x>> : x \in IffyFirstRows }
             \cup { <<x, y>> : x \in IffyFirstRows, y \in IffySecondRows }

StartMerge ==
    /\ os_raw \in OsRawFiles
    /\ iffy_raw \in IffyRawFiles
    /\ opensources = EmptyDict
    /\ iffy = EmptyDict
    /\ merged = <<>>
    /\ tier1 = EmptyDict
    /\ mg_pc = "parse_os"

IdleMerge ==
    /\ os_raw = <<>>
    /\ iffy_raw = <<>>
    /\ opensources = EmptyDict
    /\ iffy = EmptyDict
    /\ merged = <<>>
    /\ tier1 = EmptyDict
    /\ mg_pc = "idle"

(***************************************************************************)
(* enrich_dataset.py: the cache files and the drivers step_rdap,           *)
(* step_factcheck and step_safebrowsing, run by main.                      *)
(*                                                                         *)
(* A file is written by open(path, "w"), which truncates it, followed by   *)
(* json.dump; a process may die between the two or during the dump, and    *)
(* what is then on disk is a strict prefix of a JSON document, which       *)
(* json.load rejects.  A file is therefore absent, valid with its content, *)
(* or invalid.                                                             *)
(***************************************************************************)

Providers == {"rdap", "factcheck", "safebrowsing"}

NoFile == [exists |-> FALSE, valid |-> FALSE, data |-> EmptyDict]
JsonFile(d) == [exists |-> TRUE, valid |-> TRUE, data |-> d]
Truncated == [exists |-> TRUE, valid |-> FALSE, data |-> EmptyDict]

\* The save periods of the source are 100 (line 239) and 200 (line 343)
\* queries and the Safe Browsing batch is 500 URLs (line 397).  The model
\* runs on a handful of records, so the three are scaled down to keep a
\* periodic save and a second batch inside one run.
RdapSaveEvery == 2
FcSaveEvery == 2
BATCH_SIZE == 2

\* the values of an "error" entry: False, True and "rate_limit"
ErrFalse == "False"
ErrTrue == "True"
ErrRateLimit == "rate_limit"

\* domain.split(".")
RECURSIVE SplitDot(_)
SplitDot(s) ==
    LET dots == { k \in 1..Len(s) : s[k] = "." }
    IN  IF dots = {} THEN <<s>>
        ELSE <<SubSeq(s, 1, SetMin(dots) - 1)>>
             \o SplitDot(SubSeq(s, SetMin(dots) + 1, Len(s)))

\* ".".join(parts)
RECURSIVE JoinDot(_)
JoinDot(parts) ==
    IF Len(parts) = 0 THEN <<>>
    ELSE IF Len(parts) = 1 THEN parts[1]
    ELSE parts[1] \o <<".">> \o JoinDot(Tail(parts))

\* parts[-n:]
LastParts(parts, n) == SubSeq(parts, Max2(1, Len(parts) - n + 1), Len(parts))

\* line 157
two_level ==
    { <<"c","o",".","u","k">>, <<"c","o","m",".","a","u">>, <<"c","o",".","n","z">>,
      <<"c","o",".","z","a">>, <<"c","o","m",".","b","r">>, <<"c","o",".","i","n">>,
      <<"o","r","g",".","u","k">>, <<"n","e","t",".","a","u">> }

\* lines 153-162
get_base_domain(domain) ==
    LET parts == SplitDot(domain)
    IN  IF Len(parts) >= 3 /\ JoinDot(LastParts(parts, 2)) \in two_level
        THEN JoinDot(LastParts(parts, 3))
        ELSE IF Len(parts) >= 2 THEN JoinDot(LastParts(parts, 2)) ELSE domain

\* 03_merged.json: the merged records, sorted by domain
Dom_a  == <<"a", ".", "c">>
Dom_bx == <<"b", ".", "x", ".", "c">>
Dom_dx == <<"d", ".", "x", ".", "c">>
Dom_y  == <<"y", ".", "c", "o", ".", "u", "k">>

MergedFile ==
    << [domain |-> Dom_a,  category |-> "fake", categories_all |-> {"fake", "satire"},
        sources |-> <<"opensources">>],
       [domain |-> Dom_bx, category |-> "mixed", categories_all |-> {"mixed"},
        sources |-> <<"iffy">>],
       [domain |-> Dom_dx, category |-> "reliable", categories_all |-> {"reliable"},
        sources |-> <<"opensources", "iffy">>],
       [domain |-> Dom_y,  category |-> "unreliable", categories_all |-> {"unreliable"},
        sources |-> <<"iffy">>] >>

\* entry[k] = v on the record at position n
SetAttr(list, n, k, v) == [list EXCEPT ![n] = Put(list[n], k, v)]

\* lines 211-212 and 314-315 left out: the list is never cut
Capped_Off(seq, limit) == seq

\* seq[:limit] when limit > 0 (lines 211-212, 314-315)
Capped(seq, limit) ==
    IF limit > 0 THEN SubSeq(seq, 1, Min2(limit, Len(seq))) ELSE seq

\* the history of one provider call for key, which returned failed or not
Called(key, times, failed) ==
    /\ q_calls' = Put(q_calls, key, Get(q_calls, key, 0) + times)
    /\ q_warm' = IF key \in DOMAIN cache THEN q_warm \cup {key} ELSE q_warm
    /\ q_failed' = IF failed THEN q_failed \cup {key} ELSE q_failed

\* open(path, "w"): the file is truncated
OpenForWrite(provider) == files' = [files EXCEPT ![provider] = Truncated]

\* json.dump(cache, f) and the close of the with block
DumpCache(provider) ==
    /\ files' = [files EXCEPT ![provider] = JsonFile(cache)]
    /\ committed' = [committed EXCEPT ![provider] = cache]
    /\ unflushed' = 0

(***************************************************************************)
(* step_rdap                                                               *)
(***************************************************************************)

\* what query_rdap returns: a dict with the registration date, or None.
\* Dates are named by their distance from the run time.
RdapAnswers == { Some([registered |-> "20y ago"]),
                 Some([registered |-> "in 2y"]),
                 None }

\* (now - reg_date).days of the dates above (lines 258-259)
DaysSince(reg) == IF reg = "20y ago" THEN 7305 ELSE -731

\* line 221, disabled: every record of to_query is queried
RdapSkips_Never(base, c) == FALSE

\* line 221: if base in cache: continue
RdapSkips(base, c) == base \in DOMAIN c

\* lines 226-229 without the marker: nothing is recorded for a failure
RdapStored_NoMarker(result) == IF IsNone(result) THEN EmptyDict ELSE Val(result)

\* lines 225-229: the cache entry of a query result
RdapStored(result) == IF IsNone(result) THEN [error |-> ErrTrue] ELSE Val(result)

\* a failed query leaves no entry in the cache
RdapStore_SkipFailure(c, base, result) ==
    IF IsNone(result) THEN c ELSE Put(c, base, RdapStored(result))

\* lines 225-229: cache[base] = ... in both branches
RdapStore(c, base, result) == Put(c, base, RdapStored(result))

\* lines 197-214: load the cache, list the records to query
RdapLoad ==
    /\ stage = "rdap" /\ pc = "load"
    /\ IF files["rdap"].exists /\ ~files["rdap"].valid
       THEN \* json.load raises JSONDecodeError: the process ends
            /\ stage' = "idle" /\ pc' = "none"
            /\ entries' = <<>> /\ cache' = EmptyDict /\ to_query' = <<>> /\ loop_i' = 0
            /\ exit_status' = "error"
            /\ UNCHANGED <<m_limit, loaded>>
       ELSE LET c == IF files["rdap"].exists THEN files["rdap"].data ELSE EmptyDict
                cold(e) == get_base_domain(e["domain"]) \notin DOMAIN c
            IN  /\ cache' = c
                /\ loaded' = Some(c)
                /\ to_query' = Capped(SelectSeq(entries, cold), m_limit)
                /\ loop_i' = 0
                /\ pc' = "loop"
                /\ UNCHANGED <<m_limit, stage, entries, exit_status>>
    /\ UNCHANGED <<diskVars, committed, unflushed, q_calls, q_warm, q_failed>>
    /\ UNCHANGED notEnrich

\* lines 219-241: one iteration of the query loop, up to the periodic save
RdapIteration ==
    /\ stage = "rdap" /\ pc = "loop" /\ loop_i < Len(to_query)
    /\ LET base == get_base_domain(to_query[loop_i + 1]["domain"])
       IN  IF RdapSkips(base, cache)
           THEN /\ loop_i' = loop_i + 1
                /\ UNCHANGED <<cache, pc, unflushed, q_calls, q_warm, q_failed>>
           ELSE \E result \in RdapAnswers :
                /\ cache' = RdapStore(cache, base, result)
                /\ Called(base, 1, IsNone(result))
                /\ unflushed' = unflushed + 1
                /\ pc' = IF (loop_i + 1) % RdapSaveEvery = 0 THEN "save_open" ELSE "loop"
                /\ loop_i' = loop_i + 1
    /\ UNCHANGED <<m_limit, stage, entries, to_query, loaded, committed, exit_status>>
    /\ UNCHANGED diskVars
    /\ UNCHANGED notEnrich

\* line 240: open(RDAP_CACHE_PATH, "w")
RdapSaveOpen ==
    /\ stage = "rdap" /\ pc = "save_open"
    /\ OpenForWrite("rdap")
    /\ pc' = "save_write"
    /\ UNCHANGED <<enriched_file, api_key, op_step>>
    /\ UNCHANGED <<m_limit, stage, entries, cache, to_query, loop_i>>
    /\ UNCHANGED histVars
    /\ UNCHANGED notEnrich

\* line 241: json.dump(cache, f, separators=(",", ":"))
RdapSaveWrite ==
    /\ stage = "rdap" /\ pc = "save_write"
    /\ DumpCache("rdap")
    /\ pc' = "loop"
    /\ UNCHANGED <<enriched_file, api_key, op_step>>
    /\ UNCHANGED <<m_limit, stage, entries, cache, to_query, loop_i>>
    /\ UNCHANGED <<loaded, q_calls, q_warm, q_failed, exit_status>>
    /\ UNCHANGED notEnrich

\* lines 216, 243-244: the loop is over; open the file for the final save,
\* which is made only when there was something to query
RdapFinalOpen ==
    /\ stage = "rdap" /\ pc = "loop" /\ loop_i = Len(to_query)
    /\ IF Len(to_query) > 0
       THEN OpenForWrite("rdap") /\ pc' = "final_write"
       ELSE UNCHANGED files /\ pc' = "apply"
    /\ UNCHANGED <<enriched_file, api_key, op_step>>
    /\ UNCHANGED <<m_limit, stage, entries, cache, to_query, loop_i>>
    /\ UNCHANGED histVars
    /\ UNCHANGED notEnrich

\* line 245: json.dump(cache, f, indent=2)
RdapFinalWrite ==
    /\ stage = "rdap" /\ pc = "final_write"
    /\ DumpCache("rdap")
    /\ pc' = "apply"
    /\ UNCHANGED <<enriched_file, api_key, op_step>>
    /\ UNCHANGED <<m_limit, stage, entries, cache, to_query, loop_i>>
    /\ UNCHANGED <<loaded, q_calls, q_warm, q_failed, exit_status>>
    /\ UNCHANGED notEnrich

\* the record built anew from the domain and the age, not updated in place
RdapApplied_Rebuilt(e, c) ==
    LET rdap == Get(c, get_base_domain(e["domain"]), EmptyDict)
    IN  IF "error" \in DOMAIN rdap \/ "registered" \notin DOMAIN rdap THEN e
        ELSE [domain |-> e["domain"],
              domain_age_years |-> AgeTenths(DaysSince(rdap["registered"])),
              domain_registered |-> rdap["registered"]]

\* lines 250-264: the attributes of one record
RdapApplied(e, c) ==
    LET rdap == Get(c, get_base_domain(e["domain"]), EmptyDict)
    IN  IF "error" \in DOMAIN rdap \/ "registered" \notin DOMAIN rdap THEN e
        ELSE Put(Put(e, "domain_age_years", AgeTenths(DaysSince(rdap["registered"]))),
                 "domain_registered", rdap["registered"])

\* lines 248-273: apply the cache to the records; main then saves them
RdapApply ==
    /\ stage = "rdap" /\ pc = "apply"
    /\ entries' = [n \in 1..Len(entries) |-> RdapApplied(entries[n], cache)]
    /\ pc' = "save_enriched"
    /\ UNCHANGED <<m_limit, stage, cache, to_query, loop_i>>
    /\ UNCHANGED <<diskVars, histVars>>
    /\ UNCHANGED notEnrich

(***************************************************************************)
(* step_factcheck                                                          *)
(***************************************************************************)

\* the process is gone: nothing of its memory is left
ProcessGone ==
    /\ stage' = "idle" /\ pc' = "none" /\ m_limit' = 0
    /\ entries' = <<>> /\ cache' = EmptyDict /\ to_query' = <<>> /\ loop_i' = 0

\* what query_factcheck returns (lines 290-296)
FcAnswers ==
    { [claim_count |-> 10, error |-> ErrFalse],
      [claim_count |-> 0, error |-> ErrFalse],
      [claim_count |-> 0, error |-> ErrTrue],
      [error |-> ErrRateLimit] }

\* line 327 never true: no backoff, no second call
RateLimited_Never(result) == FALSE

\* line 327: result.get("error") == "rate_limit"
RateLimited(result) == result["error"] = ErrRateLimit

\* a result that reports a failure
FcFailed(result) == result["error"] # ErrFalse

\* line 323: if d in cache: continue
FcSkips(d, c) == d \in DOMAIN c

\* line 334: cache[d] = result
FcStored(result) == result

\* lines 303-317: the key, the cache, the records to query
FcLoad ==
    /\ stage = "factcheck" /\ pc = "load"
    /\ IF ~api_key
       THEN \* get_google_api_key: sys.exit(1)
            /\ ProcessGone /\ exit_status' = "no_key" /\ UNCHANGED loaded
       ELSE IF files["factcheck"].exists /\ ~files["factcheck"].valid
       THEN \* json.load raises JSONDecodeError
            /\ ProcessGone /\ exit_status' = "error" /\ UNCHANGED loaded
       ELSE LET c == IF files["factcheck"].exists
                     THEN files["factcheck"].data ELSE EmptyDict
                cold(e) == e["domain"] \notin DOMAIN c
            IN  /\ cache' = c
                /\ loaded' = Some(c)
                /\ to_query' = Capped(SelectSeq(entries, cold), m_limit)
                /\ loop_i' = 0
                /\ pc' = "loop"
                /\ UNCHANGED <<m_limit, stage, entries, exit_status>>
    /\ UNCHANGED <<diskVars, committed, unflushed, q_calls, q_warm, q_failed>>
    /\ UNCHANGED notEnrich

\* lines 321-345: one iteration of the query loop: the query, one retry
\* after a rate limit, the store, up to the periodic save
FcIteration ==
    /\ stage = "factcheck" /\ pc = "loop" /\ loop_i < Len(to_query)
    /\ LET d == to_query[loop_i + 1]["domain"]
       IN  IF FcSkips(d, cache)
           THEN /\ loop_i' = loop_i + 1
                /\ UNCHANGED <<cache, pc, unflushed, q_calls, q_warm, q_failed>>
           ELSE \E first \in FcAnswers, second \in FcAnswers :
                LET result == IF RateLimited(first) THEN second ELSE first
                IN  /\ ~RateLimited(first) => second = first
                    /\ cache' = Put(cache, d, FcStored(result))
                    /\ Called(d, IF RateLimited(first) THEN 2 ELSE 1, FcFailed(result))
                    /\ unflushed' = unflushed + 1
                    /\ pc' = IF (loop_i + 1) % FcSaveEvery = 0 THEN "save_open" ELSE "loop"
                    /\ loop_i' = loop_i + 1
    /\ UNCHANGED <<m_limit, stage, entries, to_query, loaded, committed, exit_status>>
    /\ UNCHANGED diskVars
    /\ UNCHANGED notEnrich

\* line 344: open(FACTCHECK_CACHE_PATH, "w")
FcSaveOpen ==
    /\ stage = "factcheck" /\ pc = "save_open"
    /\ OpenForWrite("factcheck")
    /\ pc' = "save_write"
    /\ UNCHANGED <<enriched_file, api_key, op_step>>
    /\ UNCHANGED <<m_limit, stage, entries, cache, to_query, loop_i>>
    /\ UNCHANGED histVars
    /\ UNCHANGED notEnrich

\* line 345: json.dump(cache, f, separators=(",", ":"))
FcSaveWrite ==
    /\ stage = "factcheck" /\ pc = "save_write"
    /\ DumpCache("factcheck")
    /\ pc' = "loop"
    /\ UNCHANGED <<enriched_file, api_key, op_step>>
    /\ UNCHANGED <<m_limit, stage, entries, cache, to_query, loop_i>>
    /\ UNCHANGED <<loaded, q_calls, q_warm, q_failed, exit_status>>
    /\ UNCHANGED notEnrich

\* lines 319, 347: the loop is over; the final save is made only when there
\* was something to query
FcFinalOpen ==
    /\ stage = "factcheck" /\ pc = "loop" /\ loop_i = Len(to_query)
    /\ IF Len(to_query) > 0
       THEN OpenForWrite("factcheck") /\ pc' = "final_write"
       ELSE UNCHANGED files /\ pc' = "apply"
    /\ UNCHANGED <<enriched_file, api_key, op_step>>
    /\ UNCHANGED <<m_limit, stage, entries, cache, to_query, loop_i>>
    /\ UNCHANGED histVars
    /\ UNCHANGED notEnrich

\* line 348: json.dump(cache, f, indent=2)
FcFinalWrite ==
    /\ stage = "factcheck" /\ pc = "final_write"
    /\ DumpCache("factcheck")
    /\ pc' = "apply"
    /\ UNCHANGED <<enriched_file, api_key, op_step>>
    /\ UNCHANGED <<m_limit, stage, entries, cache, to_query, loop_i>>
    /\ UNCHANGED <<loaded, q_calls, q_warm, q_failed, exit_status>>
    /\ UNCHANGED notEnrich

\* lines 354-358: the attribute of one record
FcApplied(e, c) ==
    LET cached == Get(c, e["domain"], EmptyDict)
        count  == Get(cached, "claim_count", 0)
    IN  IF count > 0 THEN Put(e, "factcheck_claims", count) ELSE e

\* lines 351-373
FcApply ==
    /\ stage = "factcheck" /\ pc = "apply"
    /\ entries' = [n \in 1..Len(entries) |-> FcApplied(entries[n], cache)]
    /\ pc' = "save_enriched"
    /\ UNCHANGED <<m_limit, stage, cache, to_query, loop_i>>
    /\ UNCHANGED <<diskVars, histVars>>
    /\ UNCHANGED notEnrich

(***************************************************************************)
(* step_safebrowsing                                                       *)
(***************************************************************************)

HttpScheme  == <<"h", "t", "t", "p", ":", "/", "/">>
HttpsScheme == <<"h", "t", "t", "p", "s", ":", "/", "/">>

\* line 402: f"http://{d}/"
ThreatUrl(d) == HttpScheme \o d \o <<"/">>

\* str.replace(old, ""): every occurrence of old removed, left to right
RECURSIVE Remove(_, _)
Remove(s, old) ==
    IF Len(s) < Len(old) THEN s
    ELSE IF SubSeq(s, 1, Len(old)) = old
         THEN Remove(SubSeq(s, Len(old) + 1, Len(s)), old)
         ELSE <<s[1]>> \o Remove(Tail(s), old)

\* line 429: url.replace("http://", "").replace("https://", "").strip("/")
UrlDomain(url) ==
    LET bare == Remove(Remove(url, HttpScheme), HttpsScheme)
    IN  RStrip(LStrip(bare, {"/"}), {"/"})

\* to_check[batch_start:batch_start + BATCH_SIZE]
Batch(list, batch_start) ==
    SubSeq(list, batch_start + 1, Min2(batch_start + BATCH_SIZE, Len(list)))

Range(seq) == { seq[n] : n \in 1..Len(seq) }

\* lines 433-435 and 439-440: the cache entry of one domain of a batch;
\* matched is None when the request raised
SbStored(d, matched) ==
    IF IsNone(matched) THEN [flagged |-> FALSE, error |-> ErrTrue]
    ELSE [flagged |-> d \in { UrlDomain(u) : u \in Val(matched) }]

\* cache[d] = ... for d in batch
RECURSIVE SbStoreBatch(_, _, _)
SbStoreBatch(c, batch, matched) ==
    IF Len(batch) = 0 THEN c
    ELSE SbStoreBatch(Put(c, Head(batch), SbStored(Head(batch), matched)),
                      Tail(batch), matched)

\* lines 384-394: the key, the cache, the domains to check
SbLoad ==
    /\ stage = "safebrowsing" /\ pc = "load"
    /\ IF ~api_key
       THEN /\ ProcessGone /\ exit_status' = "no_key" /\ UNCHANGED loaded
       ELSE IF files["safebrowsing"].exists /\ ~files["safebrowsing"].valid
       THEN /\ ProcessGone /\ exit_status' = "error" /\ UNCHANGED loaded
       ELSE LET c == IF files["safebrowsing"].exists
                     THEN files["safebrowsing"].data ELSE EmptyDict
                cold(e) == e["domain"] \notin DOMAIN c
                colds == SelectSeq(entries, cold)
            IN  /\ cache' = c
                /\ loaded' = Some(c)
                /\ to_query' = [n \in 1..Len(colds) |-> colds[n]["domain"]]
                /\ loop_i' = 0
                /\ pc' = "loop"
                /\ UNCHANGED <<m_limit, stage, entries, exit_status>>
    /\ UNCHANGED <<diskVars, committed, unflushed, q_calls, q_warm, q_failed>>
    /\ UNCHANGED notEnrich

\* lines 400-443: one batch: the request answers with the URLs it matched,
\* or raises
SbBatch ==
    /\ stage = "safebrowsing" /\ pc = "loop" /\ loop_i < Len(to_query)
    /\ LET batch == Batch(to_query, loop_i)
       IN  \E matched \in {None} \cup
                          { Some({ ThreatUrl(d) : d \in hit }) : hit \in SUBSET Range(batch) } :
           /\ cache' = SbStoreBatch(cache, batch, matched)
           /\ q_calls' = [k \in DOMAIN q_calls \cup Range(batch) |->
                             Get(q_calls, k, 0) + (IF k \in Range(batch) THEN 1 ELSE 0)]
           /\ q_warm' = q_warm \cup (Range(batch) \cap DOMAIN cache)
           /\ q_failed' = IF IsNone(matched) THEN q_failed \cup Range(batch) ELSE q_failed
           /\ unflushed' = unflushed + Len(batch)
    /\ loop_i' = loop_i + BATCH_SIZE
    /\ UNCHANGED <<m_limit, stage, pc, entries, to_query, loaded, committed, exit_status>>
    /\ UNCHANGED diskVars
    /\ UNCHANGED notEnrich

\* line 445: open(SAFEBROWSING_CACHE_PATH, "w"), after the last batch
SbFinalOpen ==
    /\ stage = "safebrowsing" /\ pc = "loop" /\ loop_i >= Len(to_query)
    /\ OpenForWrite("safebrowsing")
    /\ pc' = "final_write"
    /\ UNCHANGED <<enriched_file, api_key, op_step>>
    /\ UNCHANGED <<m_limit, stage, entries, cache, to_query, loop_i>>
    /\ UNCHANGED histVars
    /\ UNCHANGED notEnrich

\* line 446: json.dump(cache, f, indent=2)
SbFinalWrite ==
    /\ stage = "safebrowsing" /\ pc = "final_write"
    /\ DumpCache("safebrowsing")
    /\ pc' = "apply"
    /\ UNCHANGED <<enriched_file, api_key, op_step>>
    /\ UNCHANGED <<m_limit, stage, entries, cache, to_query, loop_i>>
    /\ UNCHANGED <<loaded, q_calls, q_warm, q_failed, exit_status>>
    /\ UNCHANGED notEnrich

\* lines 451-455: the attribute of one record
SbApplied(e, c) ==
    LET cached == Get(c, e["domain"], EmptyDict)
    IN  IF Get(cached, "flagged", FALSE) THEN Put(e, "safe_browsing_flagged", TRUE) ELSE e

\* lines 449-459
SbApply ==
    /\ stage = "safebrowsing" /\ pc = "apply"
    /\ entries' = [n \in 1..Len(entries) |-> SbApplied(entries[n], cache)]
    /\ pc' = "save_enriched"
    /\ UNCHANGED <<m_limit, stage, cache, to_query, loop_i>>
    /\ UNCHANGED <<diskVars, histVars>>
    /\ UNCHANGED notEnrich

(***************************************************************************)
(* main                                                                    *)
(***************************************************************************)

\* line 612: the values of --step
Steps == {"tranco", "rdap", "factcheck", "safebrowsing", "score", "all"}

\* lines 628-646: the first driver main runs
FirstStage(step) == IF step = "all" THEN "tranco" ELSE step

\* lines 628-646: the driver main runs after this one, "done" after the last
NextStage(step, current) ==
    IF step # "all" THEN "done"
    ELSE CASE current = "tranco" -> "rdap"
           [] current = "rdap" -> "factcheck"
           [] current = "factcheck" -> "safebrowsing"
           [] current = "safebrowsing" -> "score"
           [] current = "score" -> "done"

\* the --limit values the operator passes
MaxLimit == 2

Limits == 0..MaxLimit

\* lines 610-626: a process starts, parses its arguments and loads the
\* records: 04_enriched.json when it exists (and --step is not all),
\* 03_merged.json otherwise
MainStart ==
    /\ stage = "idle"
    /\ \E limit \in Limits : m_limit' = limit
    /\ IF enriched_file.exists /\ op_step # "all"
       THEN IF enriched_file.valid
            THEN /\ entries' = enriched_file.data
                 /\ stage' = FirstStage(op_step) /\ pc' = "load"
                 /\ UNCHANGED exit_status
            ELSE \* json.load raises JSONDecodeError
                 /\ entries' = <<>>
                 /\ stage' = "idle" /\ pc' = "none"
                 /\ exit_status' = "error"
       ELSE /\ entries' = MergedFile
            /\ stage' = FirstStage(op_step) /\ pc' = "load"
            /\ UNCHANGED exit_status
    /\ cache' = EmptyDict /\ to_query' = <<>> /\ loop_i' = 0
    /\ loaded' = None /\ unflushed' = 0
    /\ q_calls' = EmptyDict /\ q_warm' = {} /\ q_failed' = {}
    /\ UNCHANGED <<diskVars, committed>>
    /\ UNCHANGED notEnrich

(***************************************************************************)
(* step_tranco and step_score as main runs them                            *)
(***************************************************************************)

\* The rank lookup step_tranco builds from the Tranco list (lines 114-121),
\* {domain: rank}; the lists the model is run on.
TrancoLists ==
    { EmptyDict,
      (Dom_a :> 1000),
      (Dom_a :> 1) @@ ((WwwDot \o Dom_bx) :> 1000000) }

\* lines 126-130: tranco.get(domain), then tranco.get("www." + domain)
TrancoRank(tranco, domain) ==
    IF domain \in DOMAIN tranco THEN Some(tranco[domain])
    ELSE IF (WwwDot \o domain) \in DOMAIN tranco THEN Some(tranco[WwwDot \o domain])
    ELSE None

\* lines 125-133: the attribute of one record
TrancoApplied(e, tranco) ==
    LET rank == TrancoRank(tranco, e["domain"])
    IN  IF IsNone(rank) THEN e ELSE Put(e, "tranco_rank", Val(rank))

\* lines 95-146: the list is downloaded when it is not on disk, which may
\* raise and end the process; otherwise the ranks are matched
TrancoStage ==
    /\ stage = "tranco" /\ pc = "load"
    /\ \/ /\ ProcessGone
          /\ exit_status' = "error"
       \/ \E tranco \in TrancoLists :
            /\ entries' = [n \in 1..Len(entries) |-> TrancoApplied(entries[n], tranco)]
            /\ pc' = "save_enriched"
            /\ UNCHANGED <<m_limit, stage, cache, to_query, loop_i, exit_status>>
    /\ UNCHANGED <<diskVars, loaded, committed, unflushed, q_calls, q_warm, q_failed>>
    /\ UNCHANGED notEnrich

\* lines 481-508: whether the for loop reaches line 508 with math unbound
RECURSIVE MathUnboundAt(_, _)
MathUnboundAt(list, bound) ==
    IF Len(list) = 0 THEN FALSE
    ELSE LET now_bound == bound \/ BindsMath(Head(list))
         IN  IF ReadsMath(Head(list)) /\ ~now_bound THEN TRUE
             ELSE MathUnboundAt(Tail(list), now_bound)

\* step_score raises: UnboundLocalError in the loop, or min() of an empty
\* list at line 555
StepScoreRaises(list) == Len(list) = 0 \/ MathUnboundAt(list, FALSE)

\* line 543: entry["credibility_score"] = round(score, 3)
WithScore(e) ==
    [k \in DOMAIN e \ {"credibility_score"} |-> e[k]]
    @@ ("credibility_score" :> CredibilityScore(e))

\* lines 466-603, run by main at lines 644-645
ScoreStage ==
    /\ stage = "score" /\ pc = "load"
    /\ IF StepScoreRaises(entries)
       THEN /\ ProcessGone
            /\ exit_status' = "error"
       ELSE /\ entries' = [n \in 1..Len(entries) |-> WithScore(entries[n])]
            /\ pc' = "save_enriched"
            /\ UNCHANGED <<m_limit, stage, cache, to_query, loop_i, exit_status>>
    /\ UNCHANGED <<diskVars, loaded, committed, unflushed, q_calls, q_warm, q_failed>>
    /\ UNCHANGED notEnrich

\* save_enriched line 86: open(ENRICHED_PATH, "w")
SaveEnrichedOpen ==
    /\ stage # "idle" /\ pc = "save_enriched"
    /\ enriched_file' = Truncated
    /\ pc' = "save_enriched_write"
    /\ UNCHANGED <<files, api_key, op_step>>
    /\ UNCHANGED <<m_limit, stage, entries, cache, to_query, loop_i>>
    /\ UNCHANGED histVars
    /\ UNCHANGED notEnrich

\* save_enriched line 87: json.dump; main goes on to the next driver of
\* --step all, whose history starts empty, or has no further step to run
\* and the process ends (line 648)
SaveEnrichedWrite ==
    /\ stage # "idle" /\ pc = "save_enriched_write"
    /\ enriched_file' = JsonFile(entries)
    /\ IF NextStage(op_step, stage) = "done"
       THEN /\ ProcessGone
            /\ exit_status' = "ok"
            /\ UNCHANGED <<loaded, unflushed, q_calls, q_warm, q_failed>>
       ELSE /\ stage' = NextStage(op_step, stage) /\ pc' = "load"
            /\ cache' = EmptyDict /\ to_query' = <<>> /\ loop_i' = 0
            /\ loaded' = None /\ unflushed' = 0
            /\ q_calls' = EmptyDict /\ q_warm' = {} /\ q_failed' = {}
            /\ UNCHANGED <<m_limit, entries, exit_status>>
    /\ UNCHANGED <<files, api_key, op_step, committed>>
    /\ UNCHANGED notEnrich

\* the process is killed, or the machine stops, at any point of a run
Kill ==
    /\ stage # "idle"
    /\ ProcessGone
    /\ exit_status' = "killed"
    /\ UNCHANGED diskVars
    /\ UNCHANGED <<loaded, committed, unflushed, q_calls, q_warm, q_failed>>
    /\ UNCHANGED notEnrich

StartEnrich ==
    /\ files = [p \in Providers |-> NoFile]
    /\ enriched_file = NoFile
    /\ api_key \in BOOLEAN
    /\ op_step \in Steps \ {"all"}
    /\ m_limit = 0 /\ stage = "idle" /\ pc = "none"
    /\ entries = <<>> /\ cache = EmptyDict /\ to_query = <<>> /\ loop_i = 0
    /\ loaded = None
    /\ committed = [p \in Providers |-> EmptyDict]
    /\ unflushed = 0
    /\ q_calls = EmptyDict /\ q_warm = {} /\ q_failed = {}
    /\ exit_status = "none"

IdleEnrich ==
    /\ files = [p \in Providers |-> NoFile]
    /\ enriched_file = NoFile
    /\ api_key = FALSE
    /\ op_step = "none"
    /\ m_limit = 0 /\ stage = "off" /\ pc = "none"
    /\ entries = <<>> /\ cache = EmptyDict /\ to_query = <<>> /\ loop_i = 0
    /\ loaded = None
    /\ committed = [p \in Providers |-> EmptyDict]
    /\ unflushed = 0
    /\ q_calls = EmptyDict /\ q_warm = {} /\ q_failed = {}
    /\ exit_status = "none"

(***************************************************************************)
(* Specifications                                                          *)
(***************************************************************************)

InitNorm == StartNorm /\ IdleScore /\ IdleMerge /\ IdleEnrich
NextNorm == NormalizeRaw \/ NormalizeKey \/ CheckDomain
SpecNorm == InitNorm /\ [][NextNorm]_vars

InitScore == StartScore /\ IdleNorm /\ IdleMerge /\ IdleEnrich
NextScore == ScoreEntry \/ ScoreFinish
SpecScore == InitScore /\ [][NextScore]_vars

InitMerge == StartMerge /\ IdleNorm /\ IdleScore /\ IdleEnrich
NextMerge == StepParseOpensources \/ StepParseIffy \/ StepMergeEntries
SpecMerge == InitMerge /\ [][NextMerge]_vars

InitEnrich == StartEnrich /\ IdleNorm /\ IdleScore /\ IdleMerge
NextEnrich ==
    \/ MainStart
    \/ TrancoStage
    \/ RdapLoad \/ RdapIteration \/ RdapSaveOpen \/ RdapSaveWrite
    \/ RdapFinalOpen \/ RdapFinalWrite \/ RdapApply
    \/ FcLoad \/ FcIteration \/ FcSaveOpen \/ FcSaveWrite
    \/ FcFinalOpen \/ FcFinalWrite \/ FcApply
    \/ SbLoad \/ SbBatch \/ SbFinalOpen \/ SbFinalWrite \/ SbApply
    \/ ScoreStage
    \/ SaveEnrichedOpen \/ SaveEnrichedWrite
    \/ Kill
SpecEnrich == InitEnrich /\ [][NextEnrich]_vars

\* Runs of main on a machine where no Google API key can be found, with any
\* --step.
StartNoKey ==
    /\ files = [p \in Providers |-> NoFile]
    /\ enriched_file = NoFile
    /\ api_key = FALSE
    /\ op_step \in Steps
    /\ m_limit = 0 /\ stage = "idle" /\ pc = "none"
    /\ entries = <<>> /\ cache = EmptyDict /\ to_query = <<>> /\ loop_i = 0
    /\ loaded = None
    /\ committed = [p \in Providers |-> EmptyDict]
    /\ unflushed = 0
    /\ q_calls = EmptyDict /\ q_warm = {} /\ q_failed = {}
    /\ exit_status = "none"

InitNoKey == StartNoKey /\ IdleNorm /\ IdleScore /\ IdleMerge
NextNoKey ==
    \/ MainStart
    \/ TrancoStage
    \/ RdapLoad \/ RdapIteration \/ RdapSaveOpen \/ RdapSaveWrite
    \/ RdapFinalOpen \/ RdapFinalWrite \/ RdapApply
    \/ FcLoad
    \/ SbLoad
    \/ ScoreStage
    \/ SaveEnrichedOpen \/ SaveEnrichedWrite
    \/ Kill
SpecNoKey == InitNoKey /\ [][NextNoKey]_vars

(***************************************************************************)
(* Claims                                                                  *)
(***************************************************************************)

Scored(e) == "credibility_score" \in DOMAIN e
ScoredEntries == { sc_entries[i] : i \in { j \in 1..Len(sc_entries) : Scored(sc_entries[j]) } }

\* C1: normalize_domain is idempotent: normalizing the result of
\* normalize_domain again yields the same string, for every raw string.
C1_Idempotent ==
    ~IsNone(nd_twice) => Val(nd_twice) = Val(nd_once)

\* C7: every credibility_score step_score assigns lies in [0, 1], whatever
\* signals the record carries and whatever values they have.
C7_ScoreInUnitInterval ==
    \A e \in ScoredEntries :
        e["credibility_score"] >= 0 /\ e["credibility_score"] <= 1000

\* C8: a record with safe_browsing_flagged set has credibility_score <= 0.05
\* after step_score, whatever its category and its other signals.
C8_FlaggedCapped ==
    \A e \in ScoredEntries :
        SbFlagged(e) => e["credibility_score"] <= 50

\* a flagged reliable record whose other signals are all present was scored
C8_Witness ==
    \E e \in ScoredEntries :
        /\ SbFlagged(e)
        /\ e["category"] = "reliable"
        /\ {"iffy_score", "tranco_rank", "domain_age_years", "factcheck_claims"}
               \subseteq DOMAIN e
        /\ ~IsNone(e["iffy_score"]) /\ Val(e["iffy_score"]) = 100
        /\ e["credibility_score"] = 50

\* the weights of the optional signals a record carries
PresentWeights(e) ==
      (IF IsNone(GetOpt(e, "iffy_score")) THEN 0 ELSE W_IFFY)
    + (IF "tranco_rank" \in DOMAIN e THEN W_TRANCO ELSE 0)
    + (IF "domain_age_years" \in DOMAIN e THEN W_AGE ELSE 0)
    + (IF FcClaims(e) > 0 THEN W_FACTCHECK ELSE 0)

\* the sum over the optional signals a record carries of weight * signal
PresentSum(e) ==
      (IF IsNone(GetOpt(e, "iffy_score")) THEN 0
       ELSE W_IFFY * IffySignal(Val(e["iffy_score"])))
    + (IF "tranco_rank" \in DOMAIN e
       THEN W_TRANCO * TrancoSignal(e["tranco_rank"]) ELSE 0)
    + (IF "domain_age_years" \in DOMAIN e
       THEN W_AGE * AgeSignal(e["domain_age_years"]) ELSE 0)
    + (IF FcClaims(e) > 0 THEN W_FACTCHECK * FcSignal(FcClaims(e)) ELSE 0)

NoOptionalSignal(e) == PresentWeights(e) = 0

\* C9: the coefficients step_score applies total 1.0: the unflagged score is
\* the sum over the present signals of weight * signal plus (1.0 - the sum
\* of the present weights) * the category base score (rounded to 3 places
\* where it is stored); with no optional signal it is the category base
\* score (fake: 0.0), and mixed with tranco_rank 1000 alone gives 0.5.
C9_WeightsTotalOne ==
    \A e \in ScoredEntries :
        ~SbFlagged(e) =>
            /\ e["credibility_score"] =
                   RoundDiv(PresentSum(e)
                            + (W_FULL - PresentWeights(e)) * CatScore(e["category"]),
                            SignalUnit \div 10)
            /\ NoOptionalSignal(e) =>
                   e["credibility_score"] = CATEGORY_SCORES[e["category"]] * 100
            /\ (NoOptionalSignal(e) /\ e["category"] = "fake") =>
                   e["credibility_score"] = 0
            /\ ( /\ e["category"] = "mixed"
                 /\ "tranco_rank" \in DOMAIN e /\ e["tranco_rank"] = 1000
                 /\ PresentWeights(e) = W_TRANCO ) =>
                   e["credibility_score"] = 500

\* an unflagged record carrying all four optional signals was scored, and
\* so was one carrying none
C9_Witness ==
    /\ sc_pc = "done"
    /\ \E e \in ScoredEntries :
        /\ ~SbFlagged(e)
        /\ PresentWeights(e) = W_IFFY + W_TRANCO + W_AGE + W_FACTCHECK
        /\ e["category"] = "unreliable"
        /\ e["credibility_score"] > 200

\* C5: merge is order-independent: merge_entries(A, B) and
\* merge_entries(B, A) are the identical record list, for the two source
\* maps step_merge has parsed.
C5_MergeCommutes ==
    mg_pc = "done" => merged = merge_entries(iffy, opensources)

Severity(category) ==
    CHOOSE i \in 1..Len(category_priority) : category_priority[i] = category

ParsedAndMerged ==
       { opensources[d] : d \in DOMAIN opensources }
    \cup { iffy[d] : d \in DOMAIN iffy }
    \cup { merged[i] : i \in 1..Len(merged) }

\* C6: in every record of parse_opensources, parse_iffy and merge_entries,
\* category is a member of categories_all and no member of categories_all
\* is more severe.
C6_CategoryIsWorstOfAll ==
    \A e \in ParsedAndMerged :
        /\ e["category"] \in e["categories_all"]
        /\ \A c \in e["categories_all"] : Severity(e["category"]) <= Severity(c)

(***************************************************************************)
(* Cache claims, checked under SpecEnrich                                  *)
(***************************************************************************)

\* the driver's key of a record: the base domain for RDAP, the domain for
\* the other two
CacheKey(e) ==
    IF op_step = "rdap" THEN get_base_domain(e["domain"]) ELSE e["domain"]

\* a cache value that records a failure
HasMarker(v) == "error" \in DOMAIN v /\ v["error"] # ErrFalse

\* the pairs of c are all in the file, as they were
HoldsAll(file, c) ==
    /\ file.exists /\ file.valid
    /\ \A k \in DOMAIN c : k \in DOMAIN file.data /\ file.data[k] = c[k]

\* C2: after a crash at any point of an enrichment run, every key->result
\* pair that the last completed flush left in the provider's cache file is
\* still in the file the next run reads.
C2_CommittedSurvivesCrash ==
    (stage = "idle" /\ exit_status = "killed") =>
        \A p \in Providers :
            committed[p] # EmptyDict => HoldsAll(files[p], committed[p])

\* the largest period between two writes of a cache file
MaxBatch == Max2(Max2(RdapSaveEvery, FcSaveEvery), BATCH_SIZE)

\* C3: at every point of a run of step_rdap, step_factcheck or
\* step_safebrowsing, the number of results queried and not yet written to
\* the cache file is at most a fixed batch size.
C3_UnflushedBounded == unflushed <= MaxBatch

\* C4: the query function is called only for keys absent from the cache at
\* the moment of the call, and a run whose loaded cache holds the key of
\* every record makes no call at all.
C4_WarmKeyNeverQueried ==
    /\ q_warm = {}
    /\ (stage # "idle" /\ ~IsNone(loaded)
          /\ \A n \in 1..Len(entries) : CacheKey(entries[n]) \in DOMAIN Val(loaded))
       => q_calls = EmptyDict

\* C4: a run that loaded a cache holding every record's key has gone through
\* its query loop and is about to save the records
C4_Witness ==
    /\ stage # "idle" /\ pc = "save_enriched"
    /\ ~IsNone(loaded) /\ Val(loaded) # EmptyDict
    /\ \A n \in 1..Len(entries) : CacheKey(entries[n]) \in DOMAIN Val(loaded)
    /\ q_calls = EmptyDict

\* C10: a failed query (RDAP failure, fact-check failure, rate limit that
\* lasts through the retry, failed safe-browsing batch) leaves an error
\* marker under its key in the cache, the marker is in the cache file when
\* the run completes, and a run that loaded a marker for a key makes no call
\* for that key.
C10_FailureMarkedNotRequeried ==
    /\ stage # "idle" =>
          \A k \in q_failed : k \in DOMAIN cache /\ HasMarker(cache[k])
    /\ (stage = "idle" /\ exit_status = "ok") =>
          \A k \in q_failed :
              /\ files[op_step].exists /\ files[op_step].valid
              /\ k \in DOMAIN files[op_step].data
              /\ HasMarker(files[op_step].data[k])
    /\ ~IsNone(loaded) =>
          \A k \in DOMAIN Val(loaded) :
              HasMarker(Val(loaded)[k]) => k \notin DOMAIN q_calls

\* C10: a run that found a marker in the cache it loaded has completed,
\* after querying other keys and none of the marked ones
C10_Witness ==
    /\ stage = "idle" /\ exit_status = "ok"
    /\ ~IsNone(loaded)
    /\ \E k \in DOMAIN Val(loaded) : HasMarker(Val(loaded)[k])
    /\ q_calls # EmptyDict
    /\ q_failed # {}

(***************************************************************************)
(* Parser and merge claims, checked under SpecMerge                        *)
(***************************************************************************)

\* C11: a raw label that is not in the parser's lookup table is mapped to
\* the category "other": an unknown OpenSources type by parse_opensources,
\* an unknown or empty "MBFC Fact" value by parse_iffy.
C11_UnknownLabelIsOther ==
    /\ \A d \in DOMAIN opensources :
          \A i \in 1..3 :
              LET t == StripCell(opensources[d]["opensources_types"][i])
              IN  (t # "" /\ t \notin DOMAIN OPENSOURCES_CATEGORY_MAP)
                     => "other" \in opensources[d]["categories_all"]
    /\ \A d \in DOMAIN iffy :
          iffy[d]["iffy_factual"] \notin DOMAIN IFFY_FACTUAL_MAP
             => iffy[d]["category"] = "other"

\* C12: for every input string, the key check_domain looks up is
\* normalize_domain of that string.  Checked under SpecNorm.
C12_ConsumerKeyIsBuilderKey ==
    (~IsNone(cd_key) /\ ~IsNone(nd_once)) => Val(cd_key) = Val(nd_once)

\* the keys of the two source maps
SourceKeys == DOMAIN opensources \cup DOMAIN iffy

\* C13: the domains of merge_entries' output are exactly the union of the
\* keys of the source maps, each once and in ascending order, and the
\* compact output built from it holds no other domain.
C13_MergedIsSortedUnion ==
    mg_pc = "done" =>
        /\ { merged[i]["domain"] : i \in 1..Len(merged) } = SourceKeys
        /\ Len(merged) = Cardinality(SourceKeys)
        /\ \A i \in 1..Len(merged) : \A j \in 1..Len(merged) :
              i < j => StrLess(merged[i]["domain"], merged[j]["domain"])
        /\ DOMAIN tier1 \subseteq SourceKeys

\* C13: two domains were merged, one held by both source maps and one held
\* by the second map only
C13_Witness ==
    /\ mg_pc = "done"
    /\ Len(merged) = 2
    /\ DOMAIN opensources \cap DOMAIN iffy # {}
    /\ DOMAIN iffy \ DOMAIN opensources # {}

(***************************************************************************)
(* Retry, cap and credential claims, checked under SpecEnrich              *)
(***************************************************************************)

\* the number of provider calls of the run
RECURSIVE TotalCalls(_)
TotalCalls(q) ==
    IF DOMAIN q = {} THEN 0
    ELSE LET k == CHOOSE x \in DOMAIN q : TRUE
         IN  q[k] + TotalCalls([y \in DOMAIN q \ {k} |-> q[y]])

\* the records whose key the loaded cache does not hold
ColdKeys == { CacheKey(entries[n]) : n \in 1..Len(entries) } \ DOMAIN Val(loaded)

\* a run of step_factcheck calls query_factcheck at most twice for a key;
\* a key is left with the rate-limit result only after the second call, and
\* is then in the cache as failed; the calls made are at most two for each
\* position of to_query the loop has passed
C14_AtMostTwoCalls ==
    op_step = "factcheck" =>
        /\ \A k \in DOMAIN q_calls : q_calls[k] <= 2
        /\ stage = "factcheck" =>
              /\ \A k \in DOMAIN q_calls :
                    /\ k \in DOMAIN cache
                    /\ cache[k]["error"] = ErrRateLimit =>
                          (q_calls[k] = 2 /\ k \in q_failed)
              /\ loop_i <= Len(to_query)
              /\ TotalCalls(q_calls) <= 2 * loop_i
              /\ ~IsNone(loaded) => Len(to_query) <= Cardinality(ColdKeys)

\* whatever the provider answers, an iteration of the query loop moves on to
\* the next position of to_query
C14_LoopMovesOn ==
    (stage = "factcheck" /\ pc = "loop" /\ loop_i < Len(to_query)
       /\ stage' = "factcheck")
    => loop_i' = loop_i + 1

\* C14: a rate-limit response triggers exactly one retry: query_factcheck is
\* called at most twice for a key, a key rate-limited twice is marked failed
\* and the loop moves on, so a run makes at most 2 x (number of cold keys)
\* calls.
C14_SingleRetry == []C14_AtMostTwoCalls /\ [][C14_LoopMovesOn]_vars

\* C14: a key was rate-limited on the call and on the retry, holds the
\* rate-limit marker, and the loop has gone on to query another key
C14_Witness ==
    /\ stage = "factcheck"
    /\ \E k \in DOMAIN q_calls :
          /\ q_calls[k] = 2
          /\ cache[k]["error"] = ErrRateLimit
          /\ \E k2 \in DOMAIN q_calls : k2 # k

\* the keys the run has added to the cache it loaded
NewKeys == DOMAIN cache \ DOMAIN Val(loaded)

\* C15: with a cap K > 0 a run of step_rdap or step_factcheck adds at most K
\* new keys to the provider's cache and leaves every key already cached as
\* it was; with K = 0 every cold key is processed.
C15_CapBoundsNewKeys ==
    (op_step \in {"rdap", "factcheck"} /\ stage = op_step /\ ~IsNone(loaded)) =>
        /\ \A k \in DOMAIN Val(loaded) :
              k \in DOMAIN cache /\ cache[k] = Val(loaded)[k]
        /\ m_limit > 0 => Cardinality(NewKeys) <= m_limit
        /\ (m_limit = 0 /\ pc \in {"apply", "save_enriched", "save_enriched_write"})
              => ColdKeys \subseteq DOMAIN cache
        /\ (pc = "apply" /\ Len(to_query) > 0) =>
              (files[op_step].valid /\ files[op_step].data = cache)

\* C15: a run capped at two queries, started on a cache that held some keys
\* and missed more than two, has added exactly two keys
C15_Witness ==
    /\ op_step \in {"rdap", "factcheck"} /\ stage = op_step /\ pc = "apply"
    /\ ~IsNone(loaded) /\ Val(loaded) # EmptyDict
    /\ m_limit = 2
    /\ Cardinality(NewKeys) = 2
    /\ Cardinality(ColdKeys) > 2

\* C16: a missing credential is fatal only to the stage that needs it:
\* whichever --step is selected, --step all included, the stages that need
\* no credential (tranco, rdap, score) still run and their results are
\* saved.  Checked under SpecNoKey.
C16_KeylessStagesStillRun ==
    (op_step = "all" /\ stage = "idle" /\ exit_status = "no_key") =>
        /\ enriched_file.exists /\ enriched_file.valid
        /\ \A n \in 1..Len(enriched_file.data) :
              "credibility_score" \in DOMAIN enriched_file.data[n]

Drivers == {"tranco", "rdap", "factcheck", "safebrowsing"}

\* the record after holds every attribute of the record before, and the
\* attributes merge_entries gave it are as they were
KeepsRecord(before, after) ==
    /\ DOMAIN before \subseteq DOMAIN after
    /\ \A k \in {"domain", "category", "categories_all", "sources"} :
          after[k] = before[k]

\* a step inside one of the four drivers leaves the list with the same
\* records in the same order, each with at least its attributes
AdditiveStep ==
    (stage \in Drivers /\ stage' = stage) =>
        /\ Len(entries') = Len(entries)
        /\ \A n \in 1..Len(entries) : KeepsRecord(entries[n], entries'[n])

\* C17: step_tranco, step_rdap, step_factcheck and step_safebrowsing are
\* additive: every record keeps its attribute names, its domain, category,
\* categories_all and sources, and the list keeps its length and order.
C17_DriversAdditive == [][AdditiveStep]_vars

\* C17: a driver has added an attribute to a record of a list in which an
\* earlier run had already enriched another record
C17_Witness ==
    /\ stage \in Drivers /\ pc = "save_enriched"
    /\ enriched_file.valid
    /\ \E n \in 1..Len(entries) :
          DOMAIN enriched_file.data[n] # DOMAIN MergedFile[n]
    /\ \E n \in 1..Len(entries) :
          DOMAIN entries[n] # DOMAIN enriched_file.data[n]

\* C18: step_score gives every record of a non-empty list a
\* credibility_score and never raises, whatever the order of the records and
\* whatever signals each carries.  Checked under SpecScore.
C18_ScoresEveryRecord ==
    /\ sc_pc # "raised"
    /\ sc_pc = "done" => \A i \in 1..Len(sc_entries) : Scored(sc_entries[i])

\* C19: a run of step_rdap or step_factcheck with a cap K >= 1 that finds a
\* cold key has, when its loop and final save are over, added at least one
\* of the cold keys to the cache file and lost none, whatever the provider
\* answered; the number of cold keys therefore falls with every completed
\* capped run until none is left.
C19_CappedRunProgresses ==
    (op_step \in {"rdap", "factcheck"} /\ stage = op_step /\ pc = "apply"
       /\ m_limit >= 1 /\ ColdKeys # {}) =>
        /\ NewKeys # {}
        /\ NewKeys \subseteq ColdKeys
        /\ files[op_step].exists /\ files[op_step].valid
        /\ DOMAIN files[op_step].data = DOMAIN Val(loaded) \cup NewKeys

\* C19: a run capped at one query, started on a cache that already held
\* keys, has made only failing calls and still added a key
C19_Witness ==
    /\ op_step \in {"rdap", "factcheck"} /\ stage = op_step /\ pc = "apply"
    /\ m_limit = 1
    /\ Val(loaded) # EmptyDict
    /\ q_calls # EmptyDict /\ q_failed = DOMAIN q_calls
    /\ ColdKeys \ NewKeys # {}
    /\ NewKeys # {}

\* C20: the one-letter code "c" of the compact output identifies the
\* record's category: records of different categories get different codes,
\* and the consumer's CATEGORIES table maps the code of every record back to
\* the category the record has.  Checked under SpecMerge.
C20_CodeIdentifiesCategory ==
    mg_pc = "done" =>
        /\ \A i \in 1..Len(merged) : \A j \in 1..Len(merged) :
              merged[i]["category"] # merged[j]["category"]
                 => tier1[merged[i]["domain"]]["c"] # tier1[merged[j]["domain"]]["c"]
        /\ \A i \in 1..Len(merged) :
              LET code == tier1[merged[i]["domain"]]["c"]
              IN  code \in DOMAIN CATEGORIES /\ CATEGORIES[code] = merged[i]["category"]

=============================================================================
